---- MODULE Spec2Model ----
(***************************************************************************)
(* Session/auth state machine of the EV Recharge Bunk client:              *)
(* AuthManager (in-memory user, role flag, session record in browser       *)
(* storage, redirect policy), the role lookup of firebase-config.js and    *)
(* the consumers of the intended destination in user-auth.js.              *)
(*                                                                         *)
(* Encoding of JavaScript values                                           *)
(*   null / undefined of a nullable value : <<>>      (None, Undefined)    *)
(*   a present value v                    : <<v>>     (Some(v))            *)
(*   a string that is searched (a path)   : a sequence of characters       *)
(*   an object                            : a function from field names    *)
(*                                          to <<>> or <<v>>               *)
(*   a string held in storage             : [ok, obj], the JSON text of    *)
(*                                          obj when ok, unparseable text  *)
(*                                          otherwise                      *)
(***************************************************************************)
EXTENDS Integers, Sequences, FiniteSets, TLC

VARIABLES
    currentUser,     \* AuthManager.currentUser: None or Some(user)
    isAdmin,         \* AuthManager.isAdmin
    localStorage,    \* durable tier: key -> NoItem or Some(text)
    sessionStorage,  \* per-tab tier: key -> NoItem or Some(text)
    pathname,        \* window.location.pathname of the loaded page
    href,            \* navigation issued by the page and not yet followed
    pending,         \* handleUserLogin calls suspended at the role lookup
    authUser,        \* the identity provider's signed-in user
    steps,           \* operations run so far, the bound of a run
    now,             \* Date.now()
    last             \* the operation that ran last: inputs, result, effects

vars == <<currentUser, isAdmin, localStorage, sessionStorage, pathname,
          href, pending, authUser, steps, now, last>>

----------------------------------------------------------------------------
(* Bounds *)

MaxPending == 2

MaxNow == 1

MaxSteps == 5

\* free characters of a password
MaxPasswordChars == 4

\* characters of an email value, free characters of a phone value
MaxEmailChars == 5

MaxPhoneChars == 2

----------------------------------------------------------------------------
(* JavaScript values *)

None == <<>>

Undefined == <<>>

Some(v) == <<v>>

Null == "null"

Get(o, k) == IF k \in DOMAIN o THEN o[k] ELSE Undefined

Truthy(x) == x = Some(TRUE)

IsArray(x) == x # Undefined

includes(s, sub) ==
    \E i \in 0..(Len(s) - Len(sub)) : SubSeq(s, i + 1, i + Len(sub)) = sub

----------------------------------------------------------------------------
(* Page names and the substrings the redirect policy searches for *)

S_admin == <<"a","d","m","i","n">>

S_admin_login == <<"a","d","m","i","n","-","l","o","g","i","n">>

S_user_login == <<"u","s","e","r","-","l","o","g","i","n">>

S_admin_dashboard == <<"a","d","m","i","n","-","d","a","s","h","b","o","a","r","d">>

S_login == <<"l","o","g","i","n">>

S_register == <<"r","e","g","i","s","t","e","r">>

DotHtml == <<".","h","t","m","l">>

AdminLoginPage == S_admin_login \o DotHtml

UserLoginPage == S_user_login \o DotHtml

AdminDashboardPage == S_admin_dashboard \o DotHtml

IndexPage == <<"i","n","d","e","x">> \o DotHtml

Pages == {AdminLoginPage, UserLoginPage, AdminDashboardPage, IndexPage}

Resolve(target) == IF target[1] = "/" THEN target ELSE <<"/">> \o target

Pathnames == {Resolve(p) : p \in Pages}

----------------------------------------------------------------------------
(* Browser storage and JSON *)

SESSION_KEY == "ev_bunk_session"

DEST_KEY == "ev_bunk_intended_destination"

REMEMBER_KEY == "ev_bunk_remember_me"

NoItem == <<>>

getItem(store, key) == store[key]

setItem(store, key, value) == [store EXCEPT ![key] = Some(value)]

removeItem(store, key) == [store EXCEPT ![key] = NoItem]

JSONstringify(o) ==
    [ok |-> TRUE, obj |-> [k \in {f \in DOMAIN o : o[f] # Undefined} |-> o[k]]]

JSONparse(text) ==
    IF text.ok THEN [threw |-> FALSE, value |-> text.obj]
               ELSE [threw |-> TRUE, value |-> <<>>]

CorruptText == [ok |-> FALSE, obj |-> <<>>]

----------------------------------------------------------------------------
(* Identity provider users and the adminUsers collection *)

Users == { [uid |-> "u1", email |-> "ann@ev.io", displayName |-> "Ann"],
           [uid |-> "u2", email |-> "bob@ev.io", displayName |-> Null] }

GetDocOutcomes ==
    { [kind |-> "raise",   data |-> <<>>],
      [kind |-> "missing", data |-> <<>>],
      [kind |-> "exists",  data |-> [role |-> Some("manager"), permissions |-> Some(<<"manage_stations">>)]],
      [kind |-> "exists",  data |-> [role |-> Some("staff")]] }

checkAdminRole(snap) ==
    IF snap.kind = "raise"
    THEN [isAdmin |-> Some(FALSE), error |-> Some("network")]
    ELSE IF snap.kind = "exists"
         THEN [isAdmin |-> Some(TRUE),
               role |-> Get(snap.data, "role"),
               permissions |-> Get(snap.data, "permissions")]
         ELSE [isAdmin |-> Some(FALSE)]

----------------------------------------------------------------------------
(* Effects a handler issues, in order *)

Notify(msg, type) == [e |-> "notify", msg |-> msg, type |-> type]

Nav(target) == [e |-> "nav", to |-> target]

SetItem(tier, key) == [e |-> "setItem", tier |-> tier, key |-> key]

RemoveItem(tier, key) == [e |-> "removeItem", tier |-> tier, key |-> key]

\* window.location.href after the effects: the last assignment wins
LastNav(effects, before) ==
    LET navs == {i \in 1..Len(effects) : effects[i].e = "nav"}
    IN IF navs = {} THEN before
       ELSE Some(Resolve(effects[CHOOSE i \in navs : \A j \in navs : j <= i].to))

----------------------------------------------------------------------------
(* AuthManager: session store *)

sessionData(user, adminCheck, t) ==
    [userId      |-> Some(user.uid),
     email       |-> Some(user.email),
     displayName |-> Some(user.displayName),
     isAdmin     |-> Get(adminCheck, "isAdmin"),
     role        |-> Get(adminCheck, "role"),
     permissions |-> IF IsArray(Get(adminCheck, "permissions"))
                     THEN Get(adminCheck, "permissions") ELSE Some(<<>>),
     loginTime   |-> Some(t)]

\* mutant: the new record is merged into the stored one
storeUserSession_Merge(user, adminCheck, ls, t, full) ==
    LET new == JSONstringify(sessionData(user, adminCheck, t)).obj
        old == IF getItem(ls, SESSION_KEY) # NoItem /\ getItem(ls, SESSION_KEY)[1].ok
               THEN getItem(ls, SESSION_KEY)[1].obj ELSE <<>>
        merged == [k \in DOMAIN old \cup DOMAIN new |->
                      IF k \in DOMAIN new THEN new[k] ELSE old[k]]
    IN IF full
       THEN [threw |-> TRUE, ls |-> ls]
       ELSE [threw |-> FALSE,
             ls |-> setItem(ls, SESSION_KEY, [ok |-> TRUE, obj |-> merged])]

storeUserSession(user, adminCheck, ls, t, full) ==
    IF full
    THEN [threw |-> TRUE, ls |-> ls]
    ELSE [threw |-> FALSE,
          ls |-> setItem(ls, SESSION_KEY, JSONstringify(sessionData(user, adminCheck, t)))]

\* mutant: logout empties both tiers
clearUserSession_AllKeys(ls, ss) ==
    [ls |-> [k \in DOMAIN ls |-> NoItem], ss |-> [k \in DOMAIN ss |-> NoItem]]

\* mutant: the per-tab tier is forgotten
clearUserSession_DurableOnly(ls, ss) ==
    [ls |-> removeItem(ls, SESSION_KEY), ss |-> ss]

clearUserSession(ls, ss) ==
    [ls |-> removeItem(ls, SESSION_KEY), ss |-> removeItem(ss, SESSION_KEY)]

\* mutant: a durable text that does not parse falls back to the per-tab tier
getStoredSession_FallbackOnCorrupt(ls, ss) ==
    LET durable == getItem(ls, SESSION_KEY)
        session == IF durable # NoItem /\ ~JSONparse(durable[1]).threw
                   THEN durable
                   ELSE getItem(ss, SESSION_KEY)
    IN IF session = NoItem THEN None
       ELSE LET parsed == JSONparse(session[1])
            IN IF parsed.threw THEN None ELSE Some(parsed.value)

\* mutant: the per-tab tier is read first
getStoredSession_PerTabFirst(ls, ss) ==
    LET session == IF getItem(ss, SESSION_KEY) # NoItem
                   THEN getItem(ss, SESSION_KEY)
                   ELSE getItem(ls, SESSION_KEY)
    IN IF session = NoItem THEN None
       ELSE LET parsed == JSONparse(session[1])
            IN IF parsed.threw THEN None ELSE Some(parsed.value)

getStoredSession(ls, ss) ==
    LET session == IF getItem(ls, SESSION_KEY) # NoItem
                   THEN getItem(ls, SESSION_KEY)
                   ELSE getItem(ss, SESSION_KEY)
    IN IF session = NoItem THEN None
       ELSE LET parsed == JSONparse(session[1])
            IN IF parsed.threw THEN None ELSE Some(parsed.value)

\* mutant: only the in-memory user counts
isAuthenticated_MemoryOnly(cu, ls, ss) == cu # None

isAuthenticated(cu, ls, ss) == cu # None \/ getStoredSession(ls, ss) # None

\* mutant: the in-memory role flag is required as well
hasPermission_ChecksFlag(permission, ls, ss) ==
    LET session == getStoredSession(ls, ss)
    IN IF session = None \/ ~IsArray(Get(session[1], "permissions")) \/ ~isAdmin
       THEN FALSE
       ELSE \E i \in 1..Len(Get(session[1], "permissions")[1]) :
               Get(session[1], "permissions")[1][i] = permission

hasPermission(permission, ls, ss) ==
    LET session == getStoredSession(ls, ss)
    IN IF session = None \/ ~IsArray(Get(session[1], "permissions"))
       THEN FALSE
       ELSE \E i \in 1..Len(Get(session[1], "permissions")[1]) :
               Get(session[1], "permissions")[1][i] = permission

----------------------------------------------------------------------------
(* AuthManager: redirect policy and route guard.  Each operator returns the *)
(* effects in the order the code issues them.                               *)

\* mutant: an admin is sent to the dashboard from admin-login only
redirectAfterLogin_AdminLoginOnly(ls, ss, currentPage) ==
    LET session == getStoredSession(ls, ss)
    IN IF session # None /\ Truthy(Get(session[1], "isAdmin"))
       THEN IF includes(currentPage, S_admin_login)
            THEN <<Nav(AdminDashboardPage)>>
            ELSE <<>>
       ELSE IF includes(currentPage, S_admin_login)
            THEN <<Notify("Please use user login", "warning"), Nav(UserLoginPage)>>
            ELSE IF includes(currentPage, S_admin_dashboard)
                 THEN <<Notify("Admin access required", "error"), Nav(UserLoginPage)>>
                 ELSE <<>>

\* mutant: the admin-dashboard branch of the non-admin policy is missing
redirectAfterLogin_NoDashboardBranch(ls, ss, currentPage) ==
    LET session == getStoredSession(ls, ss)
    IN IF session # None /\ Truthy(Get(session[1], "isAdmin"))
       THEN IF includes(currentPage, S_admin_login) \/ includes(currentPage, S_user_login)
            THEN <<Nav(AdminDashboardPage)>>
            ELSE <<>>
       ELSE IF includes(currentPage, S_admin_login)
            THEN <<Notify("Please use user login", "warning"), Nav(UserLoginPage)>>
            ELSE <<>>

redirectAfterLogin(ls, ss, currentPage) ==
    LET session == getStoredSession(ls, ss)
    IN IF session # None /\ Truthy(Get(session[1], "isAdmin"))
       THEN IF includes(currentPage, S_admin_login) \/ includes(currentPage, S_user_login)
            THEN <<Nav(AdminDashboardPage)>>
            ELSE <<>>
       ELSE IF includes(currentPage, S_admin_login)
            THEN <<Notify("Please use user login", "warning"), Nav(UserLoginPage)>>
            ELSE IF includes(currentPage, S_admin_dashboard)
                 THEN <<Notify("Admin access required", "error"), Nav(UserLoginPage)>>
                 ELSE <<>>

\* mutant: every role but "user" is sent to the admin login page
redirectToLogin_WrongPage(role, ss, currentPage) ==
    LET loginPage == IF role = "user" THEN UserLoginPage ELSE AdminLoginPage
    IN [ss |-> setItem(ss, DEST_KEY, currentPage),
        effects |-> <<SetItem("sessionStorage", DEST_KEY), Nav(loginPage)>>]

\* mutant: the login page is stashed instead of the page the user came from
redirectToLogin_StashTarget(role, ss, currentPage) ==
    LET loginPage == IF role = "admin" THEN AdminLoginPage ELSE UserLoginPage
    IN [ss |-> setItem(ss, DEST_KEY, Resolve(loginPage)),
        effects |-> <<SetItem("sessionStorage", DEST_KEY), Nav(loginPage)>>]

redirectToLogin(role, ss, currentPage) ==
    LET loginPage == IF role = "admin" THEN AdminLoginPage ELSE UserLoginPage
    IN [ss |-> setItem(ss, DEST_KEY, currentPage),
        effects |-> <<SetItem("sessionStorage", DEST_KEY), Nav(loginPage)>>]

getIntendedDestination(ss) ==
    LET item == getItem(ss, DEST_KEY)
    IN IF item # NoItem /\ item[1] # <<>> THEN item[1] ELSE IndexPage

\* mutant: the role of the session is not checked
validateAuth_NoRoleCheck(requiredRole, cu, ls, ss, currentPage) ==
    LET session == getStoredSession(ls, ss)
    IN IF ~isAuthenticated(cu, ls, ss) \/ session = None
       THEN LET r == redirectToLogin(requiredRole, ss, currentPage)
            IN [ret |-> FALSE, ss |-> r.ss, effects |-> r.effects]
       ELSE [ret |-> TRUE, ss |-> ss, effects |-> <<>>]

validateAuth(requiredRole, cu, ls, ss, currentPage) ==
    LET session == getStoredSession(ls, ss)
    IN IF ~isAuthenticated(cu, ls, ss) \/ session = None
       THEN LET r == redirectToLogin(requiredRole, ss, currentPage)
            IN [ret |-> FALSE, ss |-> r.ss, effects |-> r.effects]
       ELSE IF requiredRole = "admin" /\ ~Truthy(Get(session[1], "isAdmin"))
            THEN LET r == redirectToLogin("admin", ss, currentPage)
                 IN [ret |-> FALSE, ss |-> r.ss,
                     effects |-> <<Notify("Admin access required", "error")>> \o r.effects]
            ELSE [ret |-> TRUE, ss |-> ss, effects |-> <<>>]

----------------------------------------------------------------------------
(* AuthManager: the two handlers of the auth state listener *)

\* handleUserLogin from the resumption of the await to the end of the handler
\* mutant: the catch block clears the stored session
handleUserLoginResume_ClearOnFailure(user, snap, ls, ss, currentPage, t, full) ==
    LET adminCheck == checkAdminRole(snap)
        stored == storeUserSession(user, adminCheck, ls, t, full)
    IN IF stored.threw
       THEN [outcome |-> "failed",
             isAdmin |-> adminCheck.isAdmin[1],
             ls |-> removeItem(ls, SESSION_KEY),
             effects |-> <<Notify("Authentication failed", "error")>>]
       ELSE [outcome |-> "success",
             isAdmin |-> adminCheck.isAdmin[1],
             ls |-> stored.ls,
             effects |-> <<SetItem("localStorage", SESSION_KEY),
                           Notify("Authentication successful!", "success")>>
                         \o redirectAfterLogin(stored.ls, ss, currentPage)]

\* mutant: a lookup that completes after a logout is dropped
handleUserLoginResume_DroppedAfterLogout(user, snap, ls, ss, currentPage, t, full) ==
    LET adminCheck == checkAdminRole(snap)
        stored == storeUserSession(user, adminCheck, ls, t, full)
    IN IF currentUser = None
       THEN [outcome |-> "dropped", isAdmin |-> FALSE, ls |-> ls, effects |-> <<>>]
       ELSE IF stored.threw
       THEN [outcome |-> "failed",
             isAdmin |-> adminCheck.isAdmin[1],
             ls |-> ls,
             effects |-> <<Notify("Authentication failed", "error")>>]
       ELSE [outcome |-> "success",
             isAdmin |-> adminCheck.isAdmin[1],
             ls |-> stored.ls,
             effects |-> <<SetItem("localStorage", SESSION_KEY),
                           Notify("Authentication successful!", "success")>>
                         \o redirectAfterLogin(stored.ls, ss, currentPage)]

handleUserLoginResume(user, snap, ls, ss, currentPage, t, full) ==
    LET adminCheck == checkAdminRole(snap)
        stored == storeUserSession(user, adminCheck, ls, t, full)
    IN IF stored.threw
       THEN [outcome |-> "failed",
             isAdmin |-> adminCheck.isAdmin[1],
             ls |-> ls,
             effects |-> <<Notify("Authentication failed", "error")>>]
       ELSE [outcome |-> "success",
             isAdmin |-> adminCheck.isAdmin[1],
             ls |-> stored.ls,
             effects |-> <<SetItem("localStorage", SESSION_KEY),
                           Notify("Authentication successful!", "success")>>
                         \o redirectAfterLogin(stored.ls, ss, currentPage)]

handleUserLogout(ls, ss, currentPage) ==
    LET cleared == clearUserSession(ls, ss)
    IN [currentUser |-> None,
        isAdmin |-> FALSE,
        ls |-> cleared.ls,
        ss |-> cleared.ss,
        effects |-> <<RemoveItem("localStorage", SESSION_KEY),
                      RemoveItem("sessionStorage", SESSION_KEY),
                      Nav(IF includes(currentPage, S_admin)
                          THEN AdminLoginPage ELSE UserLoginPage)>>]

----------------------------------------------------------------------------
(* AuthManager: sign-out request and the user profile document.  Each       *)
(* operator returns whether the call raised to its caller, the value it     *)
(* returned otherwise, and the effects it issued.                           *)

\* authMethods.signOut: the provider's error is caught and reported in the result
authMethodsSignOut(fails) ==
    IF fails THEN [success |-> FALSE, error |-> Some("auth/network-request-failed")]
             ELSE [success |-> TRUE, error |-> Undefined]

signOut(fails) ==
    LET result == authMethodsSignOut(fails)
    IN IF result.success
       THEN [raised |-> FALSE, ret |-> Undefined, effects |-> <<>>]
       ELSE [raised |-> FALSE, ret |-> Undefined,
             effects |-> <<Notify("Error signing out", "error")>>]

\* what getDoc / updateDoc of the users collection can do
ProfileOutcomes == {"raise", "missing", "exists"}

ProfileData == [displayName |-> Some("Ann"), phone |-> Some("555")]

getUserProfile(cu, outcome) ==
    IF cu = None THEN [raised |-> FALSE, ret |-> None, effects |-> <<>>]
    ELSE IF outcome = "exists"
         THEN [raised |-> FALSE,
               ret |-> Some(ProfileData @@ [userId |-> Some(cu[1].uid)]),
               effects |-> <<>>]
         ELSE [raised |-> FALSE, ret |-> None, effects |-> <<>>]

\* the guard of line 220 is outside the try block
updateUserProfile(cu, outcome) ==
    IF cu = None
    THEN [raised |-> TRUE, ret |-> Some("User not authenticated"), effects |-> <<>>]
    ELSE IF outcome = "raise"
         THEN [raised |-> FALSE,
               ret |-> Some([success |-> FALSE, error |-> Some("unavailable")]),
               effects |-> <<>>]
         ELSE [raised |-> FALSE,
               ret |-> Some([success |-> TRUE, error |-> Undefined]),
               effects |-> <<>>]

----------------------------------------------------------------------------
(* AuthManager: password strength.  A password is a sequence of characters. *)

MinLength == 8

UpperChars ==
    {"A", "B", "C", "D", "E", "F", "G", "H", "I", "J", "K", "L", "M",
     "N", "O", "P", "Q", "R", "S", "T", "U", "V", "W", "X", "Y", "Z"}

LowerChars ==
    {"a", "b", "c", "d", "e", "f", "g", "h", "i", "j", "k", "l", "m",
     "n", "o", "p", "q", "r", "s", "t", "u", "v", "w", "x", "y", "z"}

Digits == {"0", "1", "2", "3", "4", "5", "6", "7", "8", "9"}

SpecialChars ==
    {"!", "@", "#", "$", "%", "^", "&", "*", "(", ")", "_", "+", "-", "=",
     "[", "]", "{", "}", ";", "'", ":", "\"", "\\", "|", ",", ".", "<", ">",
     "/", "?"}

\* regex.test(password) for a character class
test(class, password) == \E i \in 1..Len(password) : password[i] \in class

\* mutant: three messages reach "strong"
getPasswordFeedback_WeakUpToTwo(strength, requirements) ==
    LET f1 == IF ~requirements.minLength THEN <<"At least 8 characters">> ELSE <<>>
        f2 == IF ~requirements.hasUppercase THEN Append(f1, "One uppercase letter") ELSE f1
        f3 == IF ~requirements.hasLowercase THEN Append(f2, "One lowercase letter") ELSE f2
        f4 == IF ~requirements.hasNumbers THEN Append(f3, "One number") ELSE f3
        feedback == IF ~requirements.hasSpecialChar THEN Append(f4, "One special character") ELSE f4
    IN IF strength <= 2
       THEN [level |-> "weak", message |-> "Password is too weak", feedback |-> feedback]
       ELSE IF strength < 4
       THEN [level |-> "medium", message |-> "Password is okay", feedback |-> feedback]
       ELSE IF strength < 5
       THEN [level |-> "strong", message |-> "Password is strong", feedback |-> feedback]
       ELSE [level |-> "very-strong", message |-> "Password is very strong", feedback |-> feedback]

\* mutant: the number message is pushed before the letter messages
getPasswordFeedback_NumberFirst(strength, requirements) ==
    LET f1 == IF ~requirements.minLength THEN <<"At least 8 characters">> ELSE <<>>
        f2 == IF ~requirements.hasNumbers THEN Append(f1, "One number") ELSE f1
        f3 == IF ~requirements.hasUppercase THEN Append(f2, "One uppercase letter") ELSE f2
        f4 == IF ~requirements.hasLowercase THEN Append(f3, "One lowercase letter") ELSE f3
        feedback == IF ~requirements.hasSpecialChar THEN Append(f4, "One special character") ELSE f4
    IN IF strength < 2
       THEN [level |-> "weak", message |-> "Password is too weak", feedback |-> feedback]
       ELSE IF strength < 4
       THEN [level |-> "medium", message |-> "Password is okay", feedback |-> feedback]
       ELSE IF strength < 5
       THEN [level |-> "strong", message |-> "Password is strong", feedback |-> feedback]
       ELSE [level |-> "very-strong", message |-> "Password is very strong", feedback |-> feedback]

getPasswordFeedback(strength, requirements) ==
    LET f1 == IF ~requirements.minLength THEN <<"At least 8 characters">> ELSE <<>>
        f2 == IF ~requirements.hasUppercase THEN Append(f1, "One uppercase letter") ELSE f1
        f3 == IF ~requirements.hasLowercase THEN Append(f2, "One lowercase letter") ELSE f2
        f4 == IF ~requirements.hasNumbers THEN Append(f3, "One number") ELSE f3
        feedback == IF ~requirements.hasSpecialChar THEN Append(f4, "One special character") ELSE f4
    IN IF strength < 2
       THEN [level |-> "weak", message |-> "Password is too weak", feedback |-> feedback]
       ELSE IF strength < 4
       THEN [level |-> "medium", message |-> "Password is okay", feedback |-> feedback]
       ELSE IF strength < 5
       THEN [level |-> "strong", message |-> "Password is strong", feedback |-> feedback]
       ELSE [level |-> "very-strong", message |-> "Password is very strong", feedback |-> feedback]

\* Object.values(requirements), in the order the fields are written
ObjectValues(requirements) ==
    <<requirements.minLength, requirements.hasUppercase, requirements.hasLowercase,
      requirements.hasNumbers, requirements.hasSpecialChar>>

Boolean(b) == b

\* mutant: all five rules are needed to be strong
validatePasswordStrength_AllFive(password) ==
    LET requirements == [minLength |-> Len(password) >= MinLength,
                         hasUppercase |-> test(UpperChars, password),
                         hasLowercase |-> test(LowerChars, password),
                         hasNumbers |-> test(Digits, password),
                         hasSpecialChar |-> test(SpecialChars, password)]
        strength == Len(SelectSeq(ObjectValues(requirements), Boolean))
    IN [requirements |-> requirements,
        strength |-> strength,
        isStrong |-> strength >= 5,
        feedback |-> getPasswordFeedback(strength, requirements)]

validatePasswordStrength(password) ==
    LET requirements == [minLength |-> Len(password) >= MinLength,
                         hasUppercase |-> test(UpperChars, password),
                         hasLowercase |-> test(LowerChars, password),
                         hasNumbers |-> test(Digits, password),
                         hasSpecialChar |-> test(SpecialChars, password)]
        strength == Len(SelectSeq(ObjectValues(requirements), Boolean))
    IN [requirements |-> requirements,
        strength |-> strength,
        isStrong |-> strength >= 4,
        feedback |-> getPasswordFeedback(strength, requirements)]

----------------------------------------------------------------------------
(* FormValidator (main.js).  A form value is null/undefined (<<>>) or       *)
(* <<string>>, the string being a sequence of characters.                   *)

\* characters that \s matches
Whitespace == {" ", "\t", "\n"}

\* /^[^\s@]+@[^\s@]+\.[^\s@]+$/ : an "@" at i and a "." at j with a
\* non-empty run before, between and after, no other character being
\* whitespace or "@"
EmailPattern(v) ==
    \E i, j \in 1..Len(v) :
        /\ 1 < i /\ i + 1 < j /\ j < Len(v)
        /\ v[i] = "@"
        /\ v[j] = "."
        /\ \A k \in (1..Len(v)) \ {i} : v[k] \notin Whitespace \cup {"@"}

MinPhoneChars == 10

\* mutant: the leading "+" counts towards the ten characters
PhonePattern_PlusCounts(v) ==
    \E plus \in {0, 1} :
        /\ plus = 1 => (Len(v) >= 1 /\ v[1] = "+")
        /\ Len(v) >= MinPhoneChars
        /\ \A k \in (plus + 1)..Len(v) : v[k] \in Digits \cup Whitespace \cup {"-", "(", ")"}

\* /^\+?[\d\s\-\(\)]{10,}$/
PhonePattern(v) ==
    \E plus \in {0, 1} :
        /\ plus = 1 => (Len(v) >= 1 /\ v[1] = "+")
        /\ Len(v) - plus >= MinPhoneChars
        /\ \A k \in (plus + 1)..Len(v) : v[k] \in Digits \cup Whitespace \cup {"-", "(", ")"}

PatternTest(pattern, v) ==
    IF pattern = "email" THEN EmailPattern(v) ELSE PhonePattern(v)

MinPasswordChars == 6

\* names every object inherits from Object.prototype: rules[type] and
\* errorMap[key] find a value for them that is not an own property
InheritedKeys == {"constructor", "toString", "__proto__"}

\* this.rules[type]: the rule object, an inherited value, or undefined
rules(type) ==
    IF type = Some("email")
    THEN Some([pattern |-> Some("email"),
               message |-> Some("Please enter a valid email address")])
    ELSE IF type = Some("phone")
    THEN Some([pattern |-> Some("phone"),
               message |-> Some("Please enter a valid phone number")])
    ELSE IF type = Some("password")
    THEN Some([minLength |-> Some(MinPasswordChars),
               message |-> Some("Password must be at least 6 characters long")])
    ELSE IF type # None /\ type[1] \in InheritedKeys
    THEN Some([inherited |-> Some(type[1])])
    ELSE Undefined

\* truthiness of a form value: a non-empty string
ValueTruthy(value) == value # None /\ value[1] # <<>>

Valid == [raised |-> FALSE, isValid |-> TRUE, message |-> Undefined]

Invalid(message) == [raised |-> FALSE, isValid |-> FALSE, message |-> message]

Raised == [raised |-> TRUE, isValid |-> FALSE, message |-> Undefined]

\* value.trim() === '' of a string
TrimIsEmpty(v) == \A k \in 1..Len(v) : v[k] \in Whitespace

\* mutant: a value of exactly the minimum length is rejected
validate_LengthExclusive(field, value, type) ==
    LET rule == rules(type)
    IN IF rule = Undefined THEN Valid
       ELSE IF Get(rule[1], "required") # Undefined
               /\ (~ValueTruthy(value) \/ TrimIsEmpty(value[1]))
       THEN Invalid(Some([field |-> field, text |-> "is required"]))
       ELSE IF ValueTruthy(value) /\ Get(rule[1], "pattern") # Undefined
               /\ ~PatternTest(Get(rule[1], "pattern")[1], value[1])
       THEN Invalid(Get(rule[1], "message"))
       ELSE IF ValueTruthy(value) /\ Get(rule[1], "minLength") # Undefined
               /\ Len(value[1]) <= Get(rule[1], "minLength")[1]
       THEN Invalid(Get(rule[1], "message"))
       ELSE Valid

\* mutant: the length is read without testing the value first
validate_NoValueGuard(field, value, type) ==
    LET rule == rules(type)
    IN IF rule = Undefined THEN Valid
       ELSE IF Get(rule[1], "required") # Undefined
               /\ (~ValueTruthy(value) \/ TrimIsEmpty(value[1]))
       THEN Invalid(Some([field |-> field, text |-> "is required"]))
       ELSE IF ValueTruthy(value) /\ Get(rule[1], "pattern") # Undefined
               /\ ~PatternTest(Get(rule[1], "pattern")[1], value[1])
       THEN Invalid(Get(rule[1], "message"))
       ELSE IF Get(rule[1], "minLength") # Undefined
       THEN IF value = None THEN Raised
            ELSE IF Len(value[1]) < Get(rule[1], "minLength")[1]
                 THEN Invalid(Get(rule[1], "message"))
                 ELSE Valid
       ELSE Valid

validate(field, value, type) ==
    LET rule == rules(type)
    IN IF rule = Undefined THEN Valid
       ELSE IF Get(rule[1], "required") # Undefined
               /\ (~ValueTruthy(value) \/ TrimIsEmpty(value[1]))
       THEN Invalid(Some([field |-> field, text |-> "is required"]))
       ELSE IF ValueTruthy(value) /\ Get(rule[1], "pattern") # Undefined
               /\ ~PatternTest(Get(rule[1], "pattern")[1], value[1])
       THEN Invalid(Get(rule[1], "message"))
       ELSE IF ValueTruthy(value) /\ Get(rule[1], "minLength") # Undefined
               /\ Len(value[1]) < Get(rule[1], "minLength")[1]
       THEN Invalid(Get(rule[1], "message"))
       ELSE Valid

\* UserAuthentication.validateLoginForm (user-auth.js)
validateLoginForm(userData) ==
    LET emailValidation == validate("Email", userData.email, Some("email"))
        e1 == IF ~emailValidation.isValid
              THEN <<[field |-> "emailError", message |-> emailValidation.message]>>
              ELSE <<>>
        errors == IF ~ValueTruthy(userData.password) \/ Len(userData.password[1]) < 6
                  THEN Append(e1, [field |-> "passwordError",
                                   message |-> Some("Password must be at least 6 characters")])
                  ELSE e1
    IN [raised |-> emailValidation.raised,
        isValid |-> Len(errors) = 0,
        errors |-> errors]

\* UserAuthentication.getErrorMessage (user-auth.js)
errorMap ==
    [k \in {"auth/user-not-found", "auth/wrong-password", "auth/email-already-in-use",
            "auth/weak-password", "auth/invalid-email", "auth/user-disabled",
            "auth/too-many-requests"} |->
        CASE k = "auth/user-not-found" -> "No account found with this email address."
          [] k = "auth/wrong-password" -> "Incorrect password. Please try again."
          [] k = "auth/email-already-in-use" -> "An account with this email already exists."
          [] k = "auth/weak-password" -> "Password is too weak. Please choose a stronger password."
          [] k = "auth/invalid-email" -> "Please enter a valid email address."
          [] k = "auth/user-disabled" -> "This account has been disabled. Please contact support."
          [] k = "auth/too-many-requests" -> "Too many failed attempts. Please try again later."]

GenericMessage == "An error occurred. Please try again."

\* errorMap[firebaseError] || generic.  The result is a message, or the
\* value of the inherited property named by the key (a function or object,
\* which is truthy); text is then the name of that property.
getErrorMessage(firebaseError) ==
    IF firebaseError # None /\ firebaseError[1] \in DOMAIN errorMap
    THEN [isMessage |-> TRUE, text |-> errorMap[firebaseError[1]]]
    ELSE IF firebaseError # None /\ firebaseError[1] \in InheritedKeys
    THEN [isMessage |-> FALSE, text |-> firebaseError[1]]
    ELSE [isMessage |-> TRUE, text |-> GenericMessage]

\* UserAuthentication.checkAuthStatus (user-auth.js), run by the constructor
\* of the page controller on the pages that create one
S_user_register == <<"u","s","e","r","-","r","e","g","i","s","t","e","r">>

S_user_dashboard == <<"u","s","e","r","-","d","a","s","h","b","o","a","r","d">>

UserDashboardPage == S_user_dashboard \o DotHtml

\* the DOMContentLoaded handler of user-auth.js creates the controller
isAuthPage(currentPage) ==
    \/ includes(currentPage, S_user_login)
    \/ includes(currentPage, S_user_register)
    \/ includes(currentPage, S_user_dashboard)

checkAuthStatus(cu, ls, ss, currentPage) ==
    LET session == getStoredSession(ls, ss)
    IN IF /\ isAuthenticated(cu, ls, ss)
          /\ session # None
          /\ ~Truthy(Get(session[1], "isAdmin"))
          /\ (includes(currentPage, S_login) \/ includes(currentPage, S_register))
       THEN <<Nav(UserDashboardPage)>>
       ELSE <<>>

----------------------------------------------------------------------------
(* State machine *)

Roles == {"admin", "user", "manager"}

\* session texts that reach storage from outside the AuthManager
PlantedTexts ==
    { CorruptText,
      JSONstringify([userId |-> Some("u9"), isAdmin |-> Some(TRUE),
                     permissions |-> Some(<<"manage_stations">>)]),
      JSONstringify([userId |-> Some("u8")]) }

Init ==
    /\ currentUser = None
    /\ isAdmin = FALSE
    /\ localStorage = [k \in {SESSION_KEY, REMEMBER_KEY} |-> NoItem]
    /\ sessionStorage = [k \in {SESSION_KEY, DEST_KEY} |-> NoItem]
    /\ pathname = Resolve(IndexPage)
    /\ href = None
    /\ pending = <<>>
    /\ authUser = None
    /\ now = 0
    /\ steps = 0
    /\ last = [op |-> "constructor"]

Step ==
    /\ steps < MaxSteps
    /\ steps' = steps + 1

\* onAuthStateChanged(user): handleUserLogin up to its await, that is
\* line 44 and the call of checkAdminRole
SignInEvent(user) ==
    /\ Step
    /\ Len(pending) < MaxPending
    /\ authUser' = Some(user)
    /\ currentUser' = Some(user)
    /\ pending' = Append(pending, [user |-> user,
                                   pre |-> [currentUser |-> currentUser, isAdmin |-> isAdmin]])
    /\ last' = [op |-> "handleUserLogin.await", user |-> user]
    /\ UNCHANGED <<isAdmin, localStorage, sessionStorage, pathname, href, now>>

\* onAuthStateChanged(null): handleUserLogout
SignOutEvent ==
    LET r == handleUserLogout(localStorage, sessionStorage, pathname)
    IN /\ Step
       /\ authUser' = None
       /\ currentUser' = r.currentUser
       /\ isAdmin' = r.isAdmin
       /\ localStorage' = r.ls
       /\ sessionStorage' = r.ss
       /\ href' = LastNav(r.effects, href)
       /\ last' = [op |-> "handleUserLogout", effects |-> r.effects,
                   pre |-> [currentUser |-> currentUser, isAdmin |-> isAdmin],
                   storageChanged |-> r.ls # localStorage \/ r.ss # sessionStorage]
       /\ UNCHANGED <<pathname, pending, now>>

\* the role lookup of the i-th suspended handleUserLogin completes with snap;
\* full: localStorage.setItem raises QuotaExceededError
LookupReturns(i, snap, full) ==
    LET p == pending[i]
        r == handleUserLoginResume(p.user, snap, localStorage, sessionStorage,
                                   pathname, now, full)
    IN /\ Step
       /\ isAdmin' = r.isAdmin
       /\ localStorage' = r.ls
       /\ href' = LastNav(r.effects, href)
       /\ pending' = SubSeq(pending, 1, i - 1) \o SubSeq(pending, i + 1, Len(pending))
       /\ last' = [op |-> "handleUserLogin", user |-> p.user, snap |-> snap,
                   pre |-> p.pre, outcome |-> r.outcome, effects |-> r.effects,
                   prev |-> localStorage[SESSION_KEY],
                   storageChanged |-> r.ls # localStorage]
       /\ UNCHANGED <<currentUser, sessionStorage, pathname, authUser, now>>

ValidateAuth(requiredRole) ==
    LET r == validateAuth(requiredRole, currentUser, localStorage, sessionStorage, pathname)
    IN /\ Step
       /\ sessionStorage' = r.ss
       /\ href' = LastNav(r.effects, href)
       /\ last' = [op |-> "validateAuth", role |-> requiredRole,
                   ret |-> r.ret, effects |-> r.effects,
                   storageChanged |-> r.ss # sessionStorage]
       /\ UNCHANGED <<currentUser, isAdmin, localStorage, pathname, pending,
                      authUser, now>>

RedirectToLogin(role) ==
    LET r == redirectToLogin(role, sessionStorage, pathname)
    IN /\ Step
       /\ sessionStorage' = r.ss
       /\ href' = LastNav(r.effects, href)
       /\ last' = [op |-> "redirectToLogin", role |-> role, effects |-> r.effects]
       /\ UNCHANGED <<currentUser, isAdmin, localStorage, pathname, pending,
                      authUser, now>>

GetIntendedDestination ==
    /\ Step
    /\ last' = [op |-> "getIntendedDestination",
                ret |-> getIntendedDestination(sessionStorage)]
    /\ UNCHANGED <<currentUser, isAdmin, localStorage, sessionStorage, pathname,
                   href, pending, authUser, now>>

\* UserAuthentication.handleUserLogin: the timer that follows a successful signIn
UserLoginRedirect ==
    LET destination == getIntendedDestination(sessionStorage)
    IN /\ Step
       /\ includes(pathname, S_user_login)
       /\ authUser # None
       /\ href' = Some(Resolve(destination))
       /\ last' = [op |-> "UserAuthentication.redirect", ret |-> destination]
       /\ UNCHANGED <<currentUser, isAdmin, localStorage, sessionStorage, pathname,
                      pending, authUser, now>>

\* UserAuthentication.handleUserLogin from the return of signIn (lines
\* 86-110): success is result.success, rememberMe the state of the box
UserLoginSubmit(success, rememberMe) ==
    /\ Step
    /\ includes(pathname, S_user_login)
    /\ localStorage' = IF success /\ rememberMe
                       THEN setItem(localStorage, REMEMBER_KEY, "true")
                       ELSE localStorage
    /\ last' = [op |-> "UserAuthentication.handleUserLogin",
                success |-> success, rememberMe |-> rememberMe,
                effects |-> IF success
                            THEN (IF rememberMe
                                  THEN <<SetItem("localStorage", REMEMBER_KEY)>> ELSE <<>>)
                                 \o <<Notify("Login successful! Redirecting...", "success")>>
                            ELSE <<Notify(getErrorMessage(
                                       Some("Firebase: Error (auth/wrong-password).")).text,
                                   "error")>>]
    /\ UNCHANGED <<currentUser, isAdmin, sessionStorage, pathname, href, pending,
                   authUser, now>>

\* a page load: a new document and a new AuthManager (constructor, lines 8-12)
LoadPage(path) ==
    /\ Step
    /\ pathname' = path
    /\ currentUser' = None
    /\ isAdmin' = FALSE
    /\ href' = None
    /\ pending' = <<>>
    /\ last' = [op |-> "constructor"]
    /\ UNCHANGED <<localStorage, sessionStorage, authUser, now>>

FollowNavigation ==
    /\ href # None
    /\ LoadPage(href[1])

OpenPage(path) ==
    /\ href = None
    /\ LoadPage(path)

\* AuthManager.signOut(); fails: the provider's signOut rejects
SignOut(fails) ==
    LET r == signOut(fails)
    IN /\ Step
       /\ last' = [op |-> "signOut", fails |-> fails, raised |-> r.raised,
                   ret |-> r.ret, effects |-> r.effects]
       /\ UNCHANGED <<currentUser, isAdmin, localStorage, sessionStorage, pathname,
                      href, pending, authUser, now>>

GetUserProfile(outcome) ==
    LET r == getUserProfile(currentUser, outcome)
    IN /\ Step
       /\ last' = [op |-> "getUserProfile", outcome |-> outcome, raised |-> r.raised,
                   ret |-> r.ret, effects |-> r.effects]
       /\ UNCHANGED <<currentUser, isAdmin, localStorage, sessionStorage, pathname,
                      href, pending, authUser, now>>

UpdateUserProfile(outcome) ==
    LET r == updateUserProfile(currentUser, outcome)
    IN /\ Step
       /\ last' = [op |-> "updateUserProfile", outcome |-> outcome, raised |-> r.raised,
                   ret |-> r.ret, effects |-> r.effects]
       /\ UNCHANGED <<currentUser, isAdmin, localStorage, sessionStorage, pathname,
                      href, pending, authUser, now>>

PlaceDurable(text) ==
    /\ Step
    /\ localStorage' = setItem(localStorage, SESSION_KEY, text)
    /\ last' = [op |-> "external"]
    /\ UNCHANGED <<currentUser, isAdmin, sessionStorage, pathname, href, pending,
                   authUser, now>>

PlacePerTab(text) ==
    /\ Step
    /\ sessionStorage' = setItem(sessionStorage, SESSION_KEY, text)
    /\ last' = [op |-> "external"]
    /\ UNCHANGED <<currentUser, isAdmin, localStorage, pathname, href, pending,
                   authUser, now>>

Tick ==
    /\ Step
    /\ now < MaxNow
    /\ now' = now + 1
    /\ last' = [op |-> "external"]
    /\ UNCHANGED <<currentUser, isAdmin, localStorage, sessionStorage, pathname,
                   href, pending, authUser>>

Next ==
    \/ \E user \in Users : SignInEvent(user)
    \/ SignOutEvent
    \/ \E i \in 1..Len(pending), snap \in GetDocOutcomes, full \in BOOLEAN :
          LookupReturns(i, snap, full)
    \/ \E requiredRole \in Roles : ValidateAuth(requiredRole)
    \/ \E role \in Roles : RedirectToLogin(role)
    \/ GetIntendedDestination
    \/ UserLoginRedirect
    \/ \E success \in BOOLEAN, rememberMe \in BOOLEAN : UserLoginSubmit(success, rememberMe)
    \/ \E fails \in BOOLEAN : SignOut(fails)
    \/ \E outcome \in ProfileOutcomes : GetUserProfile(outcome)
    \/ \E outcome \in ProfileOutcomes \ {"missing"} : UpdateUserProfile(outcome)
    \/ FollowNavigation
    \/ \E path \in Pathnames : OpenPage(path)
    \/ \E text \in PlantedTexts : PlaceDurable(text)
    \/ \E text \in PlantedTexts : PlacePerTab(text)
    \/ Tick

Spec == Init /\ [][Next]_vars

----------------------------------------------------------------------------
(* Password evaluation: the evaluator reads no state of the AuthManager, so *)
(* it is checked on its own, for every password over a small alphabet.      *)

\* one character of each class of the five rules' regular expressions, and
\* one ("~") that no class contains
PasswordChars == {"A", "z", "7", "#", "~"}

RECURSIVE Repeat(_, _)
Repeat(c, n) == IF n = 0 THEN <<>> ELSE <<c>> \o Repeat(c, n - 1)

\* short passwords, and the same followed by MinLength - 1 characters of no
\* class: lengths on both sides of the length rule
Passwords ==
    LET short == UNION {[1..n -> PasswordChars] : n \in 0..MaxPasswordChars}
    IN short \cup {w \o Repeat("~", MinLength - 1) : w \in short}

InitPassword ==
    /\ currentUser = None
    /\ isAdmin = FALSE
    /\ localStorage = [k \in {SESSION_KEY, REMEMBER_KEY} |-> NoItem]
    /\ sessionStorage = [k \in {SESSION_KEY, DEST_KEY} |-> NoItem]
    /\ pathname = Resolve(IndexPage)
    /\ href = None
    /\ pending = <<>>
    /\ authUser = None
    /\ steps = 0
    /\ now = 0
    /\ \E password \in Passwords : last = [op |-> "input", password |-> password]

ValidatePasswordStrength ==
    /\ last.op = "input"
    /\ last' = [op |-> "validatePasswordStrength", password |-> last.password,
                result |-> validatePasswordStrength(last.password)]
    /\ UNCHANGED <<currentUser, isAdmin, localStorage, sessionStorage, pathname,
                   href, pending, authUser, steps, now>>

NextPassword == ValidatePasswordStrength

SpecPassword == InitPassword /\ [][NextPassword]_vars

----------------------------------------------------------------------------
(* Form validation and error messages: pure functions of the page          *)
(* controller, checked for every call over bounded inputs.                 *)

EmailChars == {"a", "@", ".", " "}

PhoneChars == {"+", "1", " ", "-", "(", "a"}

Strings(chars, n) == UNION {[1..k -> chars] : k \in 0..n}

\* the values the repository's tests and documentation use
ExampleStrings ==
    { <<"a", "@", "b", ".", "c", "o">>,
      <<"n", "o", "t", "-", "a", "n", "-", "e", "m", "a", "i", "l">>,
      <<"+", "1", "2", "3", "4", "5", "6", "7", "8", "9", "0">>,
      <<"1", "2", "3">> }

\* short strings of phone characters, alone and before or after a run of
\* digits one short of the password and of the phone minimum
PhoneStrings ==
    LET short == Strings(PhoneChars, MaxPhoneChars)
        pads == {Repeat("1", MinPasswordChars - 1), Repeat("1", MinPhoneChars - 1)}
    IN short \cup {w \o p : w \in short, p \in pads} \cup {p \o w : w \in short, p \in pads}

FormValues ==
    {None} \cup {Some(v) : v \in Strings(EmailChars, MaxEmailChars) \cup PhoneStrings
                                 \cup ExampleStrings}

FormTypes ==
    {None} \cup {Some(t) : t \in {"email", "phone", "password", "name"} \cup InheritedKeys}

ErrorValues ==
    {None} \cup {Some(k) : k \in DOMAIN errorMap \cup InheritedKeys
                               \cup {"", "auth/network-request-failed",
                                     "Firebase: Error (auth/wrong-password)."}}

LoginForms ==
    [email : {None} \cup {Some(v) : v \in Strings(EmailChars, MaxEmailChars - 1)
                                          \cup ExampleStrings},
     password : {None} \cup {Some(Repeat("1", n)) : n \in {0, MinPasswordChars - 1,
                                                          MinPasswordChars}}]

FormCalls ==
    {[fn |-> "validate", value |-> v, type |-> t] : v \in FormValues, t \in FormTypes}
    \cup {[fn |-> "getErrorMessage", firebaseError |-> e] : e \in ErrorValues}
    \cup {[fn |-> "validateLoginForm", userData |-> u] : u \in LoginForms}

InitForms ==
    /\ currentUser = None
    /\ isAdmin = FALSE
    /\ localStorage = [k \in {SESSION_KEY, REMEMBER_KEY} |-> NoItem]
    /\ sessionStorage = [k \in {SESSION_KEY, DEST_KEY} |-> NoItem]
    /\ pathname = Resolve(IndexPage)
    /\ href = None
    /\ pending = <<>>
    /\ authUser = None
    /\ steps = 0
    /\ now = 0
    /\ \E call \in FormCalls : last = [op |-> "call", call |-> call]

Validate ==
    /\ last.op = "call"
    /\ last.call.fn = "validate"
    /\ last' = [op |-> "validate", value |-> last.call.value, type |-> last.call.type,
                result |-> validate("Field", last.call.value, last.call.type)]
    /\ UNCHANGED <<currentUser, isAdmin, localStorage, sessionStorage, pathname,
                   href, pending, authUser, steps, now>>

GetErrorMessage ==
    /\ last.op = "call"
    /\ last.call.fn = "getErrorMessage"
    /\ last' = [op |-> "getErrorMessage", firebaseError |-> last.call.firebaseError,
                result |-> getErrorMessage(last.call.firebaseError)]
    /\ UNCHANGED <<currentUser, isAdmin, localStorage, sessionStorage, pathname,
                   href, pending, authUser, steps, now>>

ValidateLoginForm ==
    /\ last.op = "call"
    /\ last.call.fn = "validateLoginForm"
    /\ last' = [op |-> "validateLoginForm", userData |-> last.call.userData,
                result |-> validateLoginForm(last.call.userData)]
    /\ UNCHANGED <<currentUser, isAdmin, localStorage, sessionStorage, pathname,
                   href, pending, authUser, steps, now>>

NextForms ==
    \/ Validate
    \/ GetErrorMessage
    \/ ValidateLoginForm

SpecForms == InitForms /\ [][NextForms]_vars

----------------------------------------------------------------------------
(* Navigation across page loads.  The provider's sign-in state stays what   *)
(* it is; every page load creates a new AuthManager, runs checkAuthStatus   *)
(* on the pages of the user controller, and the listener is then called     *)
(* once with the provider's state.  No bound on the number of steps.        *)

NavigationPathnames == Pathnames \cup {Resolve(UserDashboardPage)}

StoredTexts == {NoItem} \cup {Some(text) : text \in PlantedTexts}

\* the document at path has loaded: constructors have run
Loaded(path, ls, ss) ==
    IF isAuthPage(path)
    THEN LastNav(checkAuthStatus(None, ls, ss, path), None)
    ELSE None

InitNavigation ==
    /\ currentUser = None
    /\ isAdmin = FALSE
    /\ localStorage \in {[k \in {SESSION_KEY, REMEMBER_KEY} |->
                             IF k = SESSION_KEY THEN t ELSE NoItem] : t \in StoredTexts}
    /\ sessionStorage \in {[k \in {SESSION_KEY, DEST_KEY} |->
                               IF k = SESSION_KEY THEN t ELSE NoItem] : t \in StoredTexts}
    /\ pathname \in NavigationPathnames
    /\ href = Loaded(pathname, localStorage, sessionStorage)
    /\ pending = <<>>
    /\ authUser \in {None} \cup {Some(u) : u \in Users}
    /\ steps = 0
    /\ now = 0
    /\ last = [op |-> "constructor", delivered |-> FALSE]

\* the listener is called with a signed-in user: handleUserLogin up to its await
DeliverSignedIn ==
    /\ ~last.delivered
    /\ authUser # None
    /\ currentUser' = authUser
    /\ pending' = <<[user |-> authUser[1],
                     pre |-> [currentUser |-> currentUser, isAdmin |-> isAdmin]]>>
    /\ last' = [op |-> "handleUserLogin.await", delivered |-> TRUE]
    /\ UNCHANGED <<isAdmin, localStorage, sessionStorage, pathname, href, authUser,
                   steps, now>>

\* the listener is called with null: handleUserLogout
DeliverSignedOut ==
    LET r == handleUserLogout(localStorage, sessionStorage, pathname)
    IN /\ ~last.delivered
       /\ authUser = None
       /\ currentUser' = r.currentUser
       /\ isAdmin' = r.isAdmin
       /\ localStorage' = r.ls
       /\ sessionStorage' = r.ss
       /\ href' = LastNav(r.effects, href)
       /\ last' = [op |-> "handleUserLogout", delivered |-> TRUE]
       /\ UNCHANGED <<pathname, pending, authUser, steps, now>>

\* the role lookup of the suspended handleUserLogin completes
LookupCompletes(snap, full) ==
    LET r == handleUserLoginResume(pending[1].user, snap, localStorage, sessionStorage,
                                   pathname, now, full)
    IN /\ pending # <<>>
       /\ isAdmin' = r.isAdmin
       /\ localStorage' = r.ls
       /\ href' = LastNav(r.effects, href)
       /\ pending' = <<>>
       /\ last' = [op |-> "handleUserLogin", delivered |-> TRUE]
       /\ UNCHANGED <<currentUser, sessionStorage, pathname, authUser, steps, now>>

\* the browser follows window.location.href: the next document loads
Navigate ==
    /\ href # None
    /\ pathname' = href[1]
    /\ currentUser' = None
    /\ isAdmin' = FALSE
    /\ pending' = <<>>
    /\ href' = Loaded(href[1], localStorage, sessionStorage)
    /\ last' = [op |-> "constructor", delivered |-> FALSE]
    /\ UNCHANGED <<localStorage, sessionStorage, authUser, steps, now>>

NextNavigation ==
    \/ DeliverSignedIn
    \/ DeliverSignedOut
    \/ \E snap \in GetDocOutcomes, full \in BOOLEAN : LookupCompletes(snap, full)
    \/ Navigate

\* the browser and the provider do not stall: a handler that can run does
SpecNavigation ==
    /\ InitNavigation
    /\ [][NextNavigation]_vars
    /\ WF_vars(DeliverSignedIn)
    /\ WF_vars(DeliverSignedOut)
    /\ WF_vars(\E snap \in GetDocOutcomes, full \in BOOLEAN : LookupCompletes(snap, full))
    /\ WF_vars(Navigate)

----------------------------------------------------------------------------
(* Vocabulary of the properties: what the last operation did, read from    *)
(* the raw state and from the effects it issued                            *)

NavIndexes(effects) == {i \in 1..Len(effects) : effects[i].e = "nav"}

NavTargets(effects) == {effects[i].to : i \in NavIndexes(effects)}

Notifications(effects) ==
    {<<effects[i].msg, effects[i].type>> : i \in {j \in 1..Len(effects) : effects[j].e = "notify"}}

NotificationTypes(effects) == {n[2] : n \in Notifications(effects)}

StorageIndexes(effects) ==
    {i \in 1..Len(effects) : effects[i].e \in {"setItem", "removeItem"}}

\* the text held under ev_bunk_session that a read would parse, if any
DurableText == localStorage[SESSION_KEY]

PerTabText == sessionStorage[SESSION_KEY]

ReadableRecord ==
    IF DurableText # NoItem
    THEN IF DurableText[1].ok THEN Some(DurableText[1].obj) ELSE None
    ELSE IF PerTabText # NoItem /\ PerTabText[1].ok THEN Some(PerTabText[1].obj) ELSE None

RecordIsAdmin ==
    /\ ReadableRecord # None
    /\ "isAdmin" \in DOMAIN ReadableRecord[1]
    /\ ReadableRecord[1].isAdmin = Some(TRUE)

LoginEnded == last.op = "handleUserLogin"

LoginSucceeded == LoginEnded /\ last.outcome = "success"

LoginFailed == LoginEnded /\ last.outcome = "failed"

OnLoginPage == pathname \in {Resolve(AdminLoginPage), Resolve(UserLoginPage)}

----------------------------------------------------------------------------
(* Sign-in handler *)

\* C1: when a sign-in event is handled and both the role lookup and the
\* storage write succeed, the handler ends with currentUser equal to the
\* event's user, isAdmin equal to the lookup's isAdmin and the durable tier
\* holding the Session Record built from that user and lookup; the session
\* write comes before the success notification, and that before the redirect.
C1_LoginPostcondition ==
    (LoginSucceeded /\ last.snap.kind # "raise") =>
        /\ currentUser = Some(last.user)
        /\ isAdmin = (last.snap.kind = "exists")
        /\ DurableText # NoItem
        /\ DurableText[1].ok
        /\ DurableText[1].obj.userId = Some(last.user.uid)
        /\ DurableText[1].obj.email = Some(last.user.email)
        /\ DurableText[1].obj.isAdmin = Some(last.snap.kind = "exists")
        /\ DurableText[1].obj.loginTime = Some(now)
        /\ last.effects[1] = SetItem("localStorage", SESSION_KEY)
        /\ last.effects[2] = Notify("Authentication successful!", "success")
        /\ \A i \in NavIndexes(last.effects) : i > 2

\* C2: whenever the handling of a sign-in event ends on its failure path
\* ('Authentication failed' is emitted), currentUser and isAdmin are what they
\* were before the event, neither storage tier was written and no redirect
\* was performed.
C2_FailureLeavesStateUntouched ==
    (LoginEnded /\ <<"Authentication failed", "error">> \in Notifications(last.effects)) =>
        /\ currentUser = last.pre.currentUser
        /\ isAdmin = last.pre.isAdmin
        /\ ~last.storageChanged
        /\ StorageIndexes(last.effects) = {}
        /\ NavIndexes(last.effects) = {}

\* C3: if the admin-role document read raises while a sign-in event is being
\* handled, the event ends with a failure notification: no success
\* notification, no Session Record written, no redirect applied.
C3_LookupFailureFailsLogin ==
    (LoginEnded /\ last.snap.kind = "raise") =>
        /\ <<"Authentication failed", "error">> \in Notifications(last.effects)
        /\ "success" \notin NotificationTypes(last.effects)
        /\ ~last.storageChanged
        /\ StorageIndexes(last.effects) = {}
        /\ NavIndexes(last.effects) = {}

----------------------------------------------------------------------------
(* Sign-out handler *)

LogoutEnded == last.op = "handleUserLogout"

\* the login page the sign-out handler must choose on the loaded page
ExpectedLogoutTarget ==
    IF pathname \in {Resolve(AdminLoginPage), Resolve(AdminDashboardPage)}
    THEN AdminLoginPage ELSE UserLoginPage

\* C4: after a sign-out event is handled, currentUser is null, isAdmin is
\* false, ev_bunk_session is absent from both tiers and exactly one navigation
\* was issued, to admin-login.html if the path contains "admin" and to
\* user-login.html otherwise; both removals come before the navigation.
C4_LogoutPostcondition ==
    LogoutEnded =>
        /\ currentUser = None
        /\ isAdmin = FALSE
        /\ localStorage[SESSION_KEY] = NoItem
        /\ sessionStorage[SESSION_KEY] = NoItem
        /\ NavTargets(last.effects) = {ExpectedLogoutTarget}
        /\ Cardinality(NavIndexes(last.effects)) = 1
        /\ href = Some(Resolve(ExpectedLogoutTarget))
        /\ \E i, j \in StorageIndexes(last.effects) :
              /\ last.effects[i] = RemoveItem("localStorage", SESSION_KEY)
              /\ last.effects[j] = RemoveItem("sessionStorage", SESSION_KEY)
        /\ \A i \in StorageIndexes(last.effects), n \in NavIndexes(last.effects) : i < n

\* a signed-in admin with a stored session is signed out on the dashboard
C4_Witness ==
    /\ LogoutEnded
    /\ last.pre.currentUser # None
    /\ last.pre.isAdmin
    /\ last.storageChanged
    /\ pathname = Resolve(AdminDashboardPage)
    /\ href = Some(Resolve(AdminLoginPage))

----------------------------------------------------------------------------
(* isAuthenticated and the route guard *)

\* C5: isAuthenticated() is true exactly when currentUser is non-null or a
\* Session Record can be read from the durable tier or, the durable tier
\* holding nothing, from the per-tab tier; nothing else is consulted, so a
\* record placed in storage without any login makes it true.
C5_IsAuthenticated ==
    isAuthenticated(currentUser, localStorage, sessionStorage)
        <=> (currentUser # None \/ ReadableRecord # None)

\* nobody signed in, a record placed in the durable tier from outside
C5_Witness ==
    /\ last.op = "external"
    /\ authUser = None
    /\ currentUser = None
    /\ pending = <<>>
    /\ DurableText # NoItem
    /\ DurableText[1].ok
    /\ DurableText[1].obj.userId = Some("u9")
    /\ isAuthenticated(currentUser, localStorage, sessionStorage)

ValidateAuthEnded == last.op = "validateAuth"

\* C6 as stated: validateAuth(requiredRole) returns false exactly when
\* isAuthenticated() is false, or requiredRole is "admin" and the stored
\* session's isAdmin is falsy; in every other case it returns true.
C6_ValidateAuthResult ==
    ValidateAuthEnded =>
        (last.ret = FALSE <=>
            \/ ~(currentUser # None \/ ReadableRecord # None)
            \/ last.role = "admin" /\ ~RecordIsAdmin)

\* C6 amended: validateAuth(requiredRole) returns false exactly when no
\* Session Record can be read from storage (whether or not currentUser is
\* set), or requiredRole is "admin" and the stored session's isAdmin is
\* falsy; in every other case it returns true.
C6_ValidateAuthResult_Amended ==
    ValidateAuthEnded =>
        (last.ret = FALSE <=>
            \/ ReadableRecord = None
            \/ last.role = "admin" /\ ~RecordIsAdmin)

\* a user held in memory only (lookup pending or write failed) is refused
C6_Witness ==
    /\ ValidateAuthEnded
    /\ currentUser # None
    /\ ReadableRecord = None
    /\ last.role = "user"
    /\ last.ret = FALSE

\* C7: side effects of validateAuth.  False for want of a session: the
\* destination is stashed and the login page of the required role is
\* navigated to (admin-login.html for "admin", user-login.html otherwise),
\* with no notification.  False because a non-admin session asked for
\* "admin": the error notification 'Admin access required' and a navigation
\* to admin-login.html.  True: no navigation, notification or storage write.
C7_ValidateAuthEffects ==
    ValidateAuthEnded =>
        /\ (last.ret = FALSE /\ ReadableRecord = None) =>
               /\ last.effects =
                     <<SetItem("sessionStorage", DEST_KEY),
                       Nav(IF last.role = "admin" THEN AdminLoginPage ELSE UserLoginPage)>>
               /\ href = Some(Resolve(IF last.role = "admin" THEN AdminLoginPage
                                                              ELSE UserLoginPage))
        /\ (last.ret = FALSE /\ ReadableRecord # None) =>
               /\ Notifications(last.effects) = {<<"Admin access required", "error">>}
               /\ NavTargets(last.effects) = {AdminLoginPage}
               /\ href = Some(Resolve(AdminLoginPage))
        /\ last.ret = TRUE =>
               /\ last.effects = <<>>
               /\ ~last.storageChanged

\* a stored non-admin session asks for an admin page
C7_Witness ==
    /\ ValidateAuthEnded
    /\ last.role = "admin"
    /\ ReadableRecord # None
    /\ ~RecordIsAdmin
    /\ last.ret = FALSE
    /\ href = Some(Resolve(AdminLoginPage))

----------------------------------------------------------------------------
(* Redirect policy *)

\* what redirectAfterLogin issued: the effects after the session write and
\* the success notification
Policy == SubSeq(last.effects, 3, Len(last.effects))

\* C8: after a successful login whose session has isAdmin true, a navigation
\* to admin-dashboard.html is issued if and only if the path contains
\* "admin-login" or "user-login"; on every other path there is no navigation
\* and no warning or error notification.
C8_AdminRedirect ==
    (LoginSucceeded /\ RecordIsAdmin) =>
        /\ (AdminDashboardPage \in NavTargets(last.effects)) <=> OnLoginPage
        /\ OnLoginPage => Policy = <<Nav(AdminDashboardPage)>>
        /\ ~OnLoginPage =>
               /\ NavTargets(last.effects) = {}
               /\ NotificationTypes(last.effects) \cap {"warning", "error"} = {}

\* an admin signs in on the user login page
C8_Witness ==
    /\ LoginSucceeded
    /\ RecordIsAdmin
    /\ pathname = Resolve(UserLoginPage)
    /\ href = Some(Resolve(AdminDashboardPage))

\* C9: after a successful login whose session has isAdmin false, a path
\* containing "admin-login" yields a warning notification and a navigation to
\* user-login.html; otherwise a path containing "admin-dashboard" yields an
\* error notification and a navigation to user-login.html; every other path
\* yields no navigation; admin-dashboard.html is never a target.
C9_UserRedirect ==
    (LoginSucceeded /\ ~RecordIsAdmin) =>
        /\ pathname = Resolve(AdminLoginPage) =>
               Policy = <<Notify("Please use user login", "warning"), Nav(UserLoginPage)>>
        /\ pathname = Resolve(AdminDashboardPage) =>
               Policy = <<Notify("Admin access required", "error"), Nav(UserLoginPage)>>
        /\ pathname \notin {Resolve(AdminLoginPage), Resolve(AdminDashboardPage)} =>
               Policy = <<>>
        /\ AdminDashboardPage \notin NavTargets(last.effects)

\* a non-admin signs in on the admin dashboard
C9_Witness ==
    /\ LoginSucceeded
    /\ ~RecordIsAdmin
    /\ pathname = Resolve(AdminDashboardPage)
    /\ href = Some(Resolve(UserLoginPage))

----------------------------------------------------------------------------
(* Intended destination *)

\* C10: redirectToLogin(role) writes the current path under
\* ev_bunk_intended_destination in the per-tab tier before it issues the
\* navigation, and getIntendedDestination() then returns that path; with the
\* key never written it returns "index.html"; getIntendedDestination() only
\* reads: it returns what the tier holds and leaves both tiers unchanged.
C10_IntendedDestination ==
    [][ /\ (last'.op = "redirectToLogin" \/ (last'.op = "validateAuth" /\ last'.ret = FALSE)) =>
              /\ sessionStorage'[DEST_KEY] = Some(pathname)
              /\ getIntendedDestination(sessionStorage') = pathname
              /\ \E i \in StorageIndexes(last'.effects) :
                    /\ last'.effects[i] = SetItem("sessionStorage", DEST_KEY)
                    /\ NavIndexes(last'.effects) # {}
                    /\ \A n \in NavIndexes(last'.effects) : i < n
        /\ last'.op = "getIntendedDestination" =>
              /\ last'.ret = IF sessionStorage[DEST_KEY] = NoItem
                             THEN IndexPage ELSE sessionStorage[DEST_KEY][1]
              /\ UNCHANGED <<localStorage, sessionStorage>>
      ]_vars

\* the guard redirected from the dashboard and the destination was read back
C10_Witness ==
    /\ last.op = "getIntendedDestination"
    /\ last.ret = Resolve(AdminDashboardPage)
    /\ pathname = Resolve(AdminDashboardPage)
    /\ href = Some(Resolve(AdminLoginPage))

----------------------------------------------------------------------------
(* Permissions *)

PermissionNames == {"manage_stations", "view_reports"}

\* C11: hasPermission(name) is true if and only if a Session Record is
\* readable and name is an element of its permissions sequence; it is false
\* when there is no session or the record has no permissions field, whatever
\* the in-memory isAdmin flag is.
C11_HasPermission ==
    \A name \in PermissionNames :
        hasPermission(name, localStorage, sessionStorage) <=>
            /\ ReadableRecord # None
            /\ "permissions" \in DOMAIN ReadableRecord[1]
            /\ \E i \in DOMAIN ReadableRecord[1].permissions[1] :
                  ReadableRecord[1].permissions[1][i] = name

\* a stored record grants the permission while the in-memory flag is false
C11_Witness ==
    /\ ~isAdmin
    /\ currentUser = None
    /\ hasPermission("manage_stations", localStorage, sessionStorage)
    /\ ~hasPermission("view_reports", localStorage, sessionStorage)

----------------------------------------------------------------------------
(* Session store *)

\* C12: storing a session changes only the durable tier and leaves the
\* per-tab tier unchanged; a read returns the durable record when the durable
\* tier holds one and the per-tab record only when the durable tier holds
\* nothing; clearing removes the record from both tiers.
C12_SessionStoreTiers ==
    [][ /\ (last'.op = "handleUserLogin" /\ last'.outcome = "success") =>
              /\ sessionStorage' = sessionStorage
              /\ localStorage'[SESSION_KEY] # NoItem
              /\ localStorage'[REMEMBER_KEY] = localStorage[REMEMBER_KEY]
        /\ (localStorage'[SESSION_KEY] # NoItem /\ localStorage'[SESSION_KEY][1].ok) =>
              getStoredSession(localStorage', sessionStorage')
                  = Some(localStorage'[SESSION_KEY][1].obj)
        /\ (localStorage'[SESSION_KEY] # NoItem /\ ~localStorage'[SESSION_KEY][1].ok) =>
              getStoredSession(localStorage', sessionStorage') = None
        /\ (/\ localStorage'[SESSION_KEY] = NoItem
            /\ sessionStorage'[SESSION_KEY] # NoItem
            /\ sessionStorage'[SESSION_KEY][1].ok) =>
              getStoredSession(localStorage', sessionStorage')
                  = Some(sessionStorage'[SESSION_KEY][1].obj)
        /\ last'.op = "handleUserLogout" =>
              /\ localStorage'[SESSION_KEY] = NoItem
              /\ sessionStorage'[SESSION_KEY] = NoItem
      ]_vars

\* a login wrote the durable tier next to a different per-tab record, and
\* the read returns the durable one
C12_Witness ==
    /\ LoginSucceeded
    /\ PerTabText # NoItem
    /\ PerTabText[1].ok
    /\ DurableText # NoItem
    /\ DurableText[1].obj.userId = Some(last.user.uid)
    /\ PerTabText[1].obj # DurableText[1].obj
    /\ getStoredSession(localStorage, sessionStorage) = Some(DurableText[1].obj)

SessionFields ==
    {"userId", "email", "displayName", "isAdmin", "role", "permissions", "loginTime"}

\* the value the last session write set for a field, from its user and lookup
WrittenField(f) ==
    LET admin == last.snap.kind = "exists"
    IN CASE f = "userId"      -> Some(last.user.uid)
         [] f = "email"       -> Some(last.user.email)
         [] f = "displayName" -> Some(last.user.displayName)
         [] f = "isAdmin"     -> Some(admin)
         [] f = "role"        -> IF admin /\ "role" \in DOMAIN last.snap.data
                                 THEN last.snap.data.role ELSE Undefined
         [] f = "permissions" -> IF admin /\ "permissions" \in DOMAIN last.snap.data
                                 THEN last.snap.data.permissions ELSE Some(<<>>)
         [] f = "loginTime"   -> Some(now)

\* C13: after any sequence of session writes, getStoredSession() returns the
\* record of the last write: equal on every field that write set and with no
\* field left from an earlier record; after clearUserSession() a read returns
\* null and both tiers are absent.
C13_SessionRoundTrip ==
    /\ LoginSucceeded =>
          LET read == getStoredSession(localStorage, sessionStorage)
          IN /\ read # None
             /\ DOMAIN read[1] \subseteq SessionFields
             /\ \A f \in SessionFields :
                   IF f \in DOMAIN read[1] THEN read[1][f] = WrittenField(f)
                                           ELSE WrittenField(f) = Undefined
    /\ LogoutEnded =>
          /\ getStoredSession(localStorage, sessionStorage) = None
          /\ localStorage[SESSION_KEY] = NoItem
          /\ sessionStorage[SESSION_KEY] = NoItem

\* a record without a role replaced a stored record that had one
C13_Witness ==
    /\ LoginSucceeded
    /\ last.prev # NoItem
    /\ last.prev[1].ok
    /\ "role" \in DOMAIN last.prev[1].obj
    /\ getStoredSession(localStorage, sessionStorage) # None
    /\ "role" \notin DOMAIN getStoredSession(localStorage, sessionStorage)[1]

\* C14: the durable Session Record is created or replaced only inside a
\* successful login callback and removed only by the sign-out handler; no
\* other operation of the page creates, modifies or deletes it, so loginTime
\* is never refreshed and the record is never dropped for age.  (A write from
\* outside the page is not an operation of the AuthManager.)
C14_SessionLifecycle ==
    [][ localStorage'[SESSION_KEY] # localStorage[SESSION_KEY] =>
          \/ /\ last'.op = "handleUserLogin"
             /\ last'.outcome = "success"
             /\ localStorage'[SESSION_KEY] # NoItem
          \/ /\ last'.op = "handleUserLogout"
             /\ localStorage'[SESSION_KEY] = NoItem
          \/ last'.op = "external"
      ]_vars

\* the guard has read a record older than the clock and left it as written
C14_Witness ==
    /\ ValidateAuthEnded
    /\ last.ret = TRUE
    /\ DurableText # NoItem
    /\ DurableText[1].ok
    /\ "loginTime" \in DOMAIN DurableText[1].obj
    /\ DurableText[1].obj.loginTime = Some(0)
    /\ now = 1

DurableRecordIsAdmin ==
    /\ DurableText # NoItem
    /\ DurableText[1].ok
    /\ "isAdmin" \in DOMAIN DurableText[1].obj
    /\ DurableText[1].obj.isAdmin = Some(TRUE)

\* C15: after every sign-in or sign-out handler has run to its end, the
\* in-memory isAdmin equals the isAdmin of the Session Record in durable
\* storage, and is false when no record is stored.
C15_IsAdminMirrorsSession ==
    (LoginEnded \/ LogoutEnded) => (isAdmin = DurableRecordIsAdmin)

----------------------------------------------------------------------------
(* Error handling *)

DurableUnreadable == DurableText # NoItem /\ ~DurableText[1].ok

LoginPageFor(role) == IF role = "admin" THEN AdminLoginPage ELSE UserLoginPage

\* C16: when the text stored under ev_bunk_session in durable storage cannot
\* be parsed, getStoredSession() returns null (also when the per-tab tier
\* holds a valid record); with no in-memory user isAuthenticated() is then
\* false, hasPermission(p) is false for every p and validateAuth returns
\* false after redirecting to the login page of the required role.
C16_UnreadableSession ==
    DurableUnreadable =>
        /\ getStoredSession(localStorage, sessionStorage) = None
        /\ \A p \in PermissionNames : ~hasPermission(p, localStorage, sessionStorage)
        /\ currentUser = None =>
              /\ ~isAuthenticated(currentUser, localStorage, sessionStorage)
              /\ \A role \in Roles :
                    LET r == validateAuth(role, currentUser, localStorage,
                                          sessionStorage, pathname)
                    IN /\ r.ret = FALSE
                       /\ r.effects[Len(r.effects)] = Nav(LoginPageFor(role))
        /\ (ValidateAuthEnded /\ currentUser = None) =>
              /\ last.ret = FALSE
              /\ href = Some(Resolve(LoginPageFor(last.role)))

C16_Witness ==
    /\ DurableUnreadable
    /\ PerTabText # NoItem
    /\ PerTabText[1].ok
    /\ currentUser = None
    /\ ValidateAuthEnded
    /\ last.ret = FALSE
    /\ href = Some(Resolve(UserLoginPage))

RequestEnded == last.op \in {"signOut", "getUserProfile", "updateUserProfile"}

\* C17: no AuthManager operation raises to its caller: the login handler
\* ends on its failure path with a notification, and signOut,
\* getUserProfile and updateUserProfile return a safe default (nothing,
\* null, success false) on every failure, a missing in-memory user included.
C17_NothingRaises ==
    /\ LoginFailed => Notifications(last.effects) = {<<"Authentication failed", "error">>}
    /\ RequestEnded => ~last.raised

----------------------------------------------------------------------------
(* Password strength *)

PasswordEvaluated == last.op = "validatePasswordStrength"

FlagNames == {"minLength", "hasUppercase", "hasLowercase", "hasNumbers", "hasSpecialChar"}

TrueFlags(requirements) == {f \in FlagNames : requirements[f]}

\* C18: strength is the number of true flags among minLength (length >= 8),
\* hasUppercase, hasLowercase, hasNumbers and hasSpecialChar, an integer in
\* 0..5, and isStrong holds exactly when strength >= 4: a password meeting
\* exactly four of the five rules is strong.
C18_Strength ==
    PasswordEvaluated =>
        LET pw == last.password
            r == last.result
        IN /\ DOMAIN r.requirements = FlagNames
           /\ r.requirements.minLength = (Len(pw) >= 8)
           /\ r.requirements.hasUppercase = (\E i \in DOMAIN pw : pw[i] \in UpperChars)
           /\ r.requirements.hasLowercase = (\E i \in DOMAIN pw : pw[i] \in LowerChars)
           /\ r.requirements.hasNumbers = (\E i \in DOMAIN pw : pw[i] \in Digits)
           /\ r.requirements.hasSpecialChar = (\E i \in DOMAIN pw : pw[i] \in SpecialChars)
           /\ r.strength = Cardinality(TrueFlags(r.requirements))
           /\ r.strength \in 0..5
           /\ r.isStrong = (r.strength >= 4)

C18_Witness ==
    /\ PasswordEvaluated
    /\ Cardinality(TrueFlags(last.result.requirements)) = 4
    /\ ~last.result.requirements.hasSpecialChar
    /\ last.result.isStrong

LevelOf(strength) ==
    CASE strength \in {0, 1} -> "weak"
      [] strength \in {2, 3} -> "medium"
      [] strength = 4 -> "strong"
      [] strength = 5 -> "very-strong"

\* C19: the level is a total function of strength: weak for 0 and 1, medium
\* for 2 and 3, strong for 4, very-strong for 5; isStrong holds exactly when
\* the level is strong or very-strong, so at most one rule met is weak.
C19_Level ==
    PasswordEvaluated =>
        LET r == last.result
        IN /\ r.feedback.level = LevelOf(Cardinality(TrueFlags(r.requirements)))
           /\ r.isStrong = (r.feedback.level \in {"strong", "very-strong"})

C19_Witness ==
    /\ PasswordEvaluated
    /\ TrueFlags(last.result.requirements) = {"minLength"}
    /\ last.result.feedback.level = "weak"
    /\ ~last.result.isStrong

\* the rules in the order of their messages
FeedbackOrder ==
    << <<"minLength", "At least 8 characters">>,
       <<"hasUppercase", "One uppercase letter">>,
       <<"hasLowercase", "One lowercase letter">>,
       <<"hasNumbers", "One number">>,
       <<"hasSpecialChar", "One special character">> >>

\* C20: the feedback list holds exactly one message for each false flag and
\* none for a true one, in the fixed order length, uppercase, lowercase,
\* number, special; its length is 5 - strength, and it is empty exactly
\* when the level is very-strong.
C20_Feedback ==
    PasswordEvaluated =>
        LET r == last.result
            Missing(pair) == ~r.requirements[pair[1]]
            expected == SelectSeq(FeedbackOrder, Missing)
        IN /\ Len(r.feedback.feedback) = Len(expected)
           /\ \A i \in 1..Len(expected) : r.feedback.feedback[i] = expected[i][2]
           /\ Len(r.feedback.feedback) = 5 - r.strength
           /\ (r.feedback.feedback = <<>>) = (r.feedback.level = "very-strong")

C20_Witness ==
    /\ PasswordEvaluated
    /\ last.result.feedback.feedback = <<"One uppercase letter", "One number">>

----------------------------------------------------------------------------
(* Form validation *)

Validated(type) == last.op = "validate" /\ last.type = Some(type)

Str(value) == value[1]

Count(v, c) == Cardinality({k \in 1..Len(v) : v[k] = c})

NoWhitespace(v) == \A k \in 1..Len(v) : v[k] \notin Whitespace

\* local@domain.tld: one "@", a non-empty local part, and after the "@" a
\* part with non-empty text on both sides of some "."
EmailForm(v) ==
    /\ Count(v, "@") = 1
    /\ NoWhitespace(v)
    /\ \E i \in 2..Len(v) :
          /\ v[i] = "@"
          /\ \E j \in (i + 2)..(Len(v) - 1) : v[j] = "."

\* C21: validate(label, v, "email") returns isValid true for a value of the
\* form local@domain.tld without whitespace or a second "@" (such as
\* "a@b.co"), and isValid false for a value without "@" (such as
\* "not-an-email") and for the empty string.
C21_EmailValidation ==
    (Validated("email") /\ last.value # None) =>
        /\ EmailForm(Str(last.value)) => last.result.isValid
        /\ Count(Str(last.value), "@") = 0 => ~last.result.isValid

PhoneBody(v) == IF Len(v) >= 1 /\ v[1] = "+" THEN Tail(v) ELSE v

\* C22: for every non-empty value v, validate(label, v, "phone") returns
\* isValid true if and only if v is, in full, an optional leading "+"
\* followed by at least 10 characters each of which is a digit, whitespace,
\* a hyphen or a parenthesis; a rejected value gets the phone message.
C22_PhoneValidation ==
    (Validated("phone") /\ ValueTruthy(last.value)) =>
        LET body == PhoneBody(Str(last.value))
            accepted == /\ Len(body) >= 10
                        /\ \A k \in 1..Len(body) :
                              body[k] \in Digits \cup Whitespace \cup {"-", "(", ")"}
        IN /\ last.result.isValid = accepted
           /\ ~accepted => last.result.message = Some("Please enter a valid phone number")
           /\ Str(last.value) = <<"1", "2", "3">> => ~last.result.isValid

C22_Witness ==
    /\ Validated("phone")
    /\ last.value = Some(<<"+", "1", "2", "3", "4", "5", "6", "7", "8", "9", "0">>)
    /\ last.result.isValid

KnownTypes == {Some("email"), Some("phone"), Some("password")}

\* C23: validate never raises, for any label, value (null, undefined and
\* the empty string included) and kind, and for every kind outside email,
\* phone and password it returns isValid true with no message, whatever the
\* value is.
C23_ValidateTotal ==
    last.op = "validate" =>
        /\ ~last.result.raised
        /\ last.type \notin KnownTypes =>
              /\ last.result.isValid
              /\ last.result.message = Undefined

C23_Witness ==
    /\ last.op = "validate"
    /\ last.value = None
    /\ last.type = Some("constructor")
    /\ last.result = Valid

\* C24: validate(label, v, "password") checks the minimum length only: a
\* non-empty v is accepted if and only if its length is at least 6,
\* whatever its character classes; so this path accepts passwords that the
\* password strength evaluator does not rate strong.
C24_PasswordLengthOnly ==
    (Validated("password") /\ ValueTruthy(last.value)) =>
        /\ last.result.isValid = (Len(Str(last.value)) >= 6)
        /\ ~last.result.isValid =>
              last.result.message = Some("Password must be at least 6 characters long")

C24_Witness ==
    /\ Validated("password")
    /\ ValueTruthy(last.value)
    /\ Len(Str(last.value)) = 6
    /\ last.result.isValid
    /\ ~validatePasswordStrength(Str(last.value)).isStrong
    /\ validatePasswordStrength(Str(last.value)).feedback.level = "weak"

----------------------------------------------------------------------------
(* Provider error messages *)

KnownErrorKeys ==
    {"auth/user-not-found", "auth/wrong-password", "auth/email-already-in-use",
     "auth/weak-password", "auth/invalid-email", "auth/user-disabled",
     "auth/too-many-requests"}

\* C25: the provider-error mapping is total: each of the seven known error
\* keys maps to its own specific message, different from the generic one
\* and from each other, and every other error value, an absent one
\* included, maps to 'An error occurred. Please try again.'.
C25_ErrorMessageTotal ==
    last.op = "getErrorMessage" =>
        LET e == last.firebaseError
        IN IF e # None /\ e[1] \in KnownErrorKeys
           THEN /\ last.result.isMessage
                /\ last.result.text # "An error occurred. Please try again."
                /\ \A k \in KnownErrorKeys \ {e[1]} :
                      last.result # getErrorMessage(Some(k))
           ELSE last.result = [isMessage |-> TRUE,
                               text |-> "An error occurred. Please try again."]

----------------------------------------------------------------------------
(* Login form *)

LoginFormValidated == last.op = "validateLoginForm"

ErrorFields(errors) == {errors[i].field : i \in 1..Len(errors)}

\* C30: validateLoginForm returns isValid true only if the email is a
\* non-empty string matching the email pattern and the password has at
\* least 6 characters; otherwise isValid is false and the error list holds
\* exactly one entry for each failing field (emailError, passwordError);
\* nothing is raised.
C30_LoginFormValidation ==
    LoginFormValidated =>
        LET email == last.userData.email
            password == last.userData.password
            emailOk == ValueTruthy(email) /\ EmailForm(Str(email))
            passwordOk == ValueTruthy(password) /\ Len(Str(password)) >= 6
            errors == last.result.errors
        IN /\ ~last.result.raised
           /\ last.result.isValid = (emailOk /\ passwordOk)
           /\ ErrorFields(errors) = (IF emailOk THEN {} ELSE {"emailError"})
                                      \cup (IF passwordOk THEN {} ELSE {"passwordError"})
           /\ Len(errors) = Cardinality(ErrorFields(errors))

----------------------------------------------------------------------------
(* Keys outside the session record *)

\* C26: handling a sign-out event leaves the durable key
\* ev_bunk_remember_me and the per-tab key ev_bunk_intended_destination
\* unchanged; no operation of the AuthManager or of the page controller
\* removes or rewrites ev_bunk_remember_me: it is only ever set, to "true",
\* by a successful sign-in with the remember-me box checked.
C26_LogoutTouchesSessionKeyOnly ==
    [][ /\ last'.op = "handleUserLogout" =>
              /\ localStorage'[REMEMBER_KEY] = localStorage[REMEMBER_KEY]
              /\ sessionStorage'[DEST_KEY] = sessionStorage[DEST_KEY]
        /\ localStorage'[REMEMBER_KEY] # localStorage[REMEMBER_KEY] =>
              /\ last'.op = "UserAuthentication.handleUserLogin"
              /\ last'.success
              /\ last'.rememberMe
              /\ localStorage'[REMEMBER_KEY] = Some("true")
      ]_vars

C26_Witness ==
    /\ LogoutEnded
    /\ localStorage[REMEMBER_KEY] = Some("true")
    /\ sessionStorage[DEST_KEY] # NoItem
    /\ DurableText = NoItem

----------------------------------------------------------------------------
(* Overlapping sign-in and sign-out events *)

\* C27: when a sign-in event awaits the role lookup, a sign-out event is
\* handled meanwhile and the lookup then completes, nothing stops the
\* handler: unless the storage write itself fails it writes the Session
\* Record of its user after the logout cleared it, so that isAuthenticated()
\* is true although the in-memory currentUser is null.
C27_StaleWriteAfterLogout ==
    [][ (last'.op = "handleUserLogin" /\ currentUser = None) =>
            \/ /\ last'.outcome = "failed"
               /\ localStorage' = localStorage
            \/ /\ last'.outcome = "success"
               /\ localStorage'[SESSION_KEY] # NoItem
               /\ localStorage'[SESSION_KEY][1].ok
               /\ localStorage'[SESSION_KEY][1].obj.userId = Some(last'.user.uid)
               /\ currentUser' = None
               /\ isAuthenticated(currentUser', localStorage', sessionStorage')
      ]_vars

\* the interleaving sign-in, sign-out, lookup completion
C27_Witness ==
    /\ LoginSucceeded
    /\ last.prev = NoItem
    /\ currentUser = None
    /\ authUser = None
    /\ DurableText # NoItem
    /\ DurableText[1].obj.userId = Some(last.user.uid)
    /\ isAuthenticated(currentUser, localStorage, sessionStorage)

\* C28: for sign-in events of different users whose role lookups overlap,
\* once every pending lookup has completed the stored Session Record's
\* userId is the id of the in-memory currentUser, the user of the most
\* recent sign-in event, whatever the order in which the lookups complete.
C28_LastSignInWins ==
    (LoginSucceeded /\ pending = <<>> /\ currentUser # None) =>
        /\ DurableText # NoItem
        /\ DurableText[1].ok
        /\ DurableText[1].obj.userId = Some(currentUser[1].uid)

----------------------------------------------------------------------------
(* Navigation across page loads *)

\* C29: with the provider delivering its sign-in state to the listener on
\* every page load, from any starting page and any stored session only
\* finitely many navigations are issued: from some point on no handler sets
\* window.location.href any more; a signed-out visitor who has reached a
\* login page stays there.
C29_NavigationStabilises == <>[](href = None)

====
